---- MODULE Spec2Model ----
(***************************************************************************)
(* Model of writer_tool.py: the content synchronisation and caching        *)
(* engine (get_all_content), the similarity search (find_similar_posts)    *)
(* and the operations built on them (refresh_content, search_writing,      *)
(* preload_all_content).                                                   *)
(*                                                                         *)
(* The two diskcache stores are the state.  posts_cache is split by key    *)
(* shape: post_records holds the "post:<id>" keys, post_order their        *)
(* iteration order (diskcache iterates in rowid order and an overwrite     *)
(* keeps the row), post_ids the "<cache_key>:post_ids" keys and            *)
(* last_fetch_time the "<cache_key>:last_fetch_time" keys.  A key that was *)
(* never written is outside the DOMAIN of the function.                    *)
(*                                                                         *)
(* The handlers are coroutines of one event loop.  A call runs without     *)
(* interruption up to an await, and get_all_content awaits only at the     *)
(* requests of the adapters (lines 127 and 179, reached from lines 322 and *)
(* 324), so an action is one such stretch: the start of a call up to its   *)
(* first request, or the return of a request up to the next request or to  *)
(* the end of the handler.  tasks holds the locals of the calls that are   *)
(* suspended at a request, in the order they were suspended; calls of      *)
(* different handlers overlap there.  begun counts the calls started, of   *)
(* which a behaviour has at most Len(Callers).                             *)
(*                                                                         *)
(* What the request of an adapter gives and whether loading the embedding  *)
(* model succeeds are the inputs; datetime.now() reads the clock now,      *)
(* which Tick advances.  lastOp records the last step taken.  The process  *)
(* starts from the caches on disk, empty or as an earlier process left     *)
(* them (its requests having succeeded or failed, its posts embedded or,   *)
(* when the model did not load, stored without vectors), and with no model *)
(* loaded.  A preload_all_content that raises ends the process before the  *)
(* server starts.                                                          *)
(*                                                                         *)
(* python is the interpreter that runs the process.  list.sort of CPython  *)
(* 3.13 finds the first run of a list in another way than the versions up  *)
(* to 3.12; the two give the same list unless a key is nan, and then they  *)
(* can differ, so the order of line 270 is that of the interpreter.        *)
(***************************************************************************)
EXTENDS Integers, Sequences, FiniteSets, TLC

VARIABLES post_records, post_order, post_ids, last_fetch_time,
          embeddings_cache, model, python, now, lastOp, tasks, begun

vars == <<post_records, post_order, post_ids, last_fetch_time,
          embeddings_cache, model, python, now, lastOp, tasks, begun>>

-----------------------------------------------------------------------------
(* Bounds of the model and the values of config.json *)

MaxTime == 1

MaxFeed == 1

MaxPosts == 2

CacheDuration == 0

SimilarPostsCount == 2

MaxTopN == 1

(* config["platforms"]: a substack source, a medium source, a source of a  *)
(* type that has no adapter, and a medium source registered without "url"  *)
Platforms ==
  << [type |-> "substack", url |-> "a", name |-> "A", has_url |-> TRUE],
     [type |-> "medium", url |-> "@b", name |-> "B", has_url |-> TRUE],
     [type |-> "ghost", url |-> "g", name |-> "G", has_url |-> TRUE],
     [type |-> "medium", url |-> "None", name |-> "M", has_url |-> FALSE] >>

PlatformIdx == DOMAIN Platforms

(* the feed entries a platform can serve: title, link, content *)
EntriesOf(i) ==
  IF i = 1
  THEN { [title |-> "T1", link |-> "a/1", content |-> "c1"],
         [title |-> "T1", link |-> "a/1", content |-> "c2"] }
  ELSE IF i = 2
  THEN { [title |-> "TB", link |-> "b/1", content |-> "c1"] }
  ELSE {}

Queries == {"q1"}

-----------------------------------------------------------------------------
(* Sequences *)

RECURSIVE SeqsUpTo(_, _)
SeqsUpTo(S, n) ==
  IF n = 0 THEN { <<>> }
  ELSE LET shorter == SeqsUpTo(S, n - 1)
       IN shorter \cup { Append(s, x) : s \in { q \in shorter : Len(q) = n - 1 }, x \in S }

Min(a, b) == IF a < b THEN a ELSE b

Max(a, b) == IF a > b THEN a ELSE b

(* seq[:n] of Python, n of either sign *)
PySliceTo(seq, n) ==
  IF n >= 0 THEN SubSeq(seq, 1, Min(n, Len(seq)))
  ELSE SubSeq(seq, 1, Max(Len(seq) + n, 0))

Put(f, k, v) == [x \in (DOMAIN f) \cup {k} |-> IF x = k THEN v ELSE f[x]]

EmptyMap == [x \in {} |-> 0]

SeqRange(s) == { s[k] : k \in DOMAIN s }


-----------------------------------------------------------------------------
(* Post *)

(* hashlib.md5(...).hexdigest(): a digest, taken to be collision free *)
Md5(s) == "md5(" \o s \o ")"

PostId(url, title) == Md5(url \o ":" \o title)

NewPostHashingContent(title, url, content, platform, platform_name) ==
  [ title |-> title, url |-> url, content |-> content,
    platform |-> platform, platform_name |-> platform_name,
    id |-> Md5(url \o ":" \o title \o ":" \o content) ]

(* lines 45-56: Post(...), its id the digest of url ":" title *)
NewPost(title, url, content, platform, platform_name) ==
  [ title |-> title, url |-> url, content |-> content,
    platform |-> platform, platform_name |-> platform_name,
    id |-> PostId(url, title) ]

to_dict(post) ==
  [ id |-> post.id, title |-> post.title, url |-> post.url,
    content |-> post.content, platform |-> post.platform,
    platform_name |-> post.platform_name ]

from_dict(data) ==
  [ NewPost(data.title, data.url, data.content, data.platform, data.platform_name)
      EXCEPT !.id = data.id ]

-----------------------------------------------------------------------------
(* Embedding provider *)

TextCap == 10000

ContentCap == 5000

(* model.encode: SentenceTransformer('all-MiniLM-L6-v2'), a deterministic  *)
(* text -> vector function.  The vectors have the same norm but for the    *)
(* texts "q0" and "T1 c0", which stand for the texts a provider maps to    *)
(* the zero vector                                                         *)
Encode(text) ==
  CASE text = "q1" -> <<5, 0>>
    [] text = "q0" -> <<0, 0>>
    [] text = "T1 c0" -> <<0, 0>>
    [] text = "T1 c1" -> <<3, 4>>
    [] text = "T1 c2" -> <<4, 3>>
    [] text = "TB c1" -> <<3, -4>>
    [] OTHER -> <<-4, 3>>

calculate_embedding(text) == Encode(PySliceTo(text, TextCap))

EmbeddingTextUncut(post) == post.title \o " " \o post.content

(* lines 260, 370, 550: post.title + " " + post.content[:5000] *)
EmbeddingText(post) == post.title \o " " \o PySliceTo(post.content, ContentCap)

Dot(u, v) == u[1] * v[1] + u[2] * v[2]

ISqrt(n) == CHOOSE r \in 0..n : r * r <= n /\ (r + 1) * (r + 1) > n

Norm(v) == ISqrt(Dot(v, v))

(* np.dot(q, e) / (norm(q) * norm(e)), kept as an exact fraction *)
Cosine(q, e) == [num |-> Dot(q, e), den |-> Norm(q) * Norm(e)]

(* a score whose denominator is 0 is the float nan: 0.0 / 0.0 in numpy    *)
(* gives nan and a RuntimeWarning, no exception                            *)
IsNaN(score) == score.den = 0

(* a < b on floats; False whenever a or b is nan (then num = den = 0)      *)
ScoreLess(a, b) == a.num * b.den < b.num * a.den

-----------------------------------------------------------------------------
(* Source adapters.  net is what the network gave: kind "error" (the       *)
(* request or the feed parse raised) or kind "feed" with the feed entries  *)

NoCall == [kind |-> "none", entries |-> <<>>]

(* the feeds a platform can serve: the substack feed lists up to MaxFeed    *)
(* entries and may list an entry again; the medium feed lists its one      *)
(* article or nothing                                                      *)
FeedsOf(i) ==
  IF i = 1 THEN SeqsUpTo(EntriesOf(i), MaxFeed) ELSE SeqsUpTo(EntriesOf(i), 1)

NetOutcomes(i) ==
  { [kind |-> "error", entries |-> <<>>] }
    \cup { [kind |-> "feed", entries |-> e] : e \in FeedsOf(i) }

EntryPosts(entries, max_posts, platform, platform_name) ==
  LET taken == PySliceTo(entries, max_posts)
  IN [k \in DOMAIN taken |->
        NewPost(taken[k].title, taken[k].link, taken[k].content, platform, platform_name)]

fetch_substack_posts(p, max_posts, net) ==
  IF net.kind = "feed"
  THEN [raised |-> FALSE, posts |-> EntryPosts(net.entries, max_posts, "substack", p.name)]
  ELSE [raised |-> FALSE, posts |-> <<>>]

fetch_medium_posts(p, max_posts, net) ==
  IF ~p.has_url
  THEN [raised |-> TRUE, posts |-> <<>>]
  ELSE IF net.kind = "feed"
  THEN [raised |-> FALSE, posts |-> EntryPosts(net.entries, max_posts, "medium", p.name)]
  ELSE [raised |-> FALSE, posts |-> <<>>]

-----------------------------------------------------------------------------
(* get_all_content *)

CacheKey(p) == p.type \o ":" \o p.url

IsDueAtExpiry(refresh, t, lft, key) ==
  refresh \/ key \notin DOMAIN lft \/ (t - lft[key]) >= CacheDuration

IsDueAlways(refresh, t, lft, key) == TRUE

(* line 300: refresh or last_fetch_time is None or now - last > duration *)
IsDue(refresh, t, lft, key) ==
  refresh \/ key \notin DOMAIN lft \/ (t - lft[key]) > CacheDuration

RECURSIVE DerefIdsUntilMissing(_, _)
DerefIdsUntilMissing(ids, pr) ==
  IF ids = <<>> THEN <<>>
  ELSE IF Head(ids) \in DOMAIN pr
       THEN <<from_dict(pr[Head(ids)])>> \o DerefIdsUntilMissing(Tail(ids), pr)
       ELSE <<>>

(* lines 307-311: the posts of the ids that have a record, in list order *)
RECURSIVE DerefIds(_, _)
DerefIds(ids, pr) ==
  IF ids = <<>> THEN <<>>
  ELSE IF Head(ids) \in DOMAIN pr
       THEN <<from_dict(pr[Head(ids)])>> \o DerefIds(Tail(ids), pr)
       ELSE DerefIds(Tail(ids), pr)

(* lines 304-311 and 353-360: the posts of a source as stored *)
LoadFromCache(key, pids, pr) ==
  DerefIds(IF key \in DOMAIN pids THEN pids[key] ELSE <<>>, pr)

HasAdapterAlways(p) == TRUE

(* lines 321-327: the types get_all_content has an adapter for *)
HasAdapter(p) == p.type \in {"substack", "medium"}

(* lines 289-314 over the store s, the first n sources of Platforms being   *)
(* configured: the due sources, and the results of the others              *)
RECURSIVE PartitionPlatforms(_, _, _, _, _, _)
PartitionPlatforms(s, n, i, refresh, t, acc) ==
  IF i > n THEN acc
  ELSE LET p == Platforms[i]
           key == CacheKey(p)
       IN IF IsDue(refresh, t, s.lft, key)
          THEN PartitionPlatforms(s, n, i + 1, refresh, t,
                 [acc EXCEPT !.to_fetch = Append(@, i)])
          ELSE PartitionPlatforms(s, n, i + 1, refresh, t,
                 [acc EXCEPT !.res = Put(@, p.name, LoadFromCache(key, s.pids, s.pr))])

RECURSIVE CachePostsMarkingUnseen(_, _)
CachePostsMarkingUnseen(st, posts) ==
  IF posts = <<>> THEN st
  ELSE LET post == Head(posts)
           seen == post.id \in DOMAIN st.pr
           st1 == [st EXCEPT
                     !.po = IF seen THEN @ ELSE Append(@, post.id),
                     !.pr = Put(@, post.id, to_dict(post)),
                     !.nord = IF seen \/ post.id \in DOMAIN st.nmap
                              THEN @ ELSE Append(@, post.id),
                     !.nmap = IF seen THEN @ ELSE Put(@, post.id, post)]
       IN CachePostsMarkingUnseen(st1, Tail(posts))

RECURSIVE CachePostsNotStoring(_, _)
CachePostsNotStoring(st, posts) ==
  IF posts = <<>> THEN st
  ELSE LET post == Head(posts)
           st1 == [st EXCEPT
                     !.nord = IF post.id \in DOMAIN st.nmap THEN @ ELSE Append(@, post.id),
                     !.nmap = Put(@, post.id, post)]
       IN CachePostsNotStoring(st1, Tail(posts))

(* lines 330-340: cache every fetched post and mark it new/changed *)
RECURSIVE CachePosts(_, _)
CachePosts(st, posts) ==
  IF posts = <<>> THEN st
  ELSE LET post == Head(posts)
           st1 == [st EXCEPT
                     !.po = IF post.id \in DOMAIN st.pr THEN @ ELSE Append(@, post.id),
                     !.pr = Put(@, post.id, to_dict(post)),
                     !.nord = IF post.id \in DOMAIN st.nmap THEN @ ELSE Append(@, post.id),
                     !.nmap = Put(@, post.id, post)]
       IN CachePosts(st1, Tail(posts))

PostIdsOf(posts) == [k \in DOMAIN posts |-> posts[k].id]

FetchPlatformPruning(st, i, net, t) ==
  LET p == Platforms[i]
      key == CacheKey(p)
      got == IF p.type = "substack" THEN fetch_substack_posts(p, MaxPosts, net)
             ELSE fetch_medium_posts(p, MaxPosts, net)
      old == IF key \in DOMAIN st.pids THEN SeqRange(st.pids[key]) ELSE {}
      gone == old \ SeqRange(PostIdsOf(got.posts))
  IN IF ~HasAdapter(p) THEN st
     ELSE IF got.raised
     THEN LET platform_posts == LoadFromCache(key, st.pids, st.pr)
          IN IF platform_posts # <<>>
             THEN [st EXCEPT !.calls = Append(@, i),
                             !.res = Put(@, p.name, platform_posts)]
             ELSE [st EXCEPT !.calls = Append(@, i)]
     ELSE LET st1 == CachePosts(st, got.posts)
          IN [st1 EXCEPT !.calls = Append(@, i),
                         !.pr = [id \in DOMAIN @ \ gone |-> @[id]],
                         !.po = SelectSeq(@, LAMBDA id : id \notin gone),
                         !.pids = Put(@, key, PostIdsOf(got.posts)),
                         !.lft = Put(@, key, t),
                         !.res = Put(@, p.name, got.posts)]

FetchPlatformStampOnly(st, i, net, t) ==
  LET p == Platforms[i]
      key == CacheKey(p)
      got == IF p.type = "substack" THEN fetch_substack_posts(p, MaxPosts, net)
             ELSE fetch_medium_posts(p, MaxPosts, net)
  IN IF ~HasAdapter(p) THEN st
     ELSE IF got.raised
     THEN LET platform_posts == LoadFromCache(key, st.pids, st.pr)
          IN IF platform_posts # <<>>
             THEN [st EXCEPT !.calls = Append(@, i),
                             !.res = Put(@, p.name, platform_posts)]
             ELSE [st EXCEPT !.calls = Append(@, i)]
     ELSE LET st1 == CachePosts(st, got.posts)
          IN [st1 EXCEPT !.calls = Append(@, i),
                         !.lft = Put(@, key, t),
                         !.res = Put(@, p.name, got.posts)]

FetchPlatformAppending(st, i, net, t) ==
  LET p == Platforms[i]
      key == CacheKey(p)
      got == IF p.type = "substack" THEN fetch_substack_posts(p, MaxPosts, net)
             ELSE fetch_medium_posts(p, MaxPosts, net)
      old == IF key \in DOMAIN st.pids THEN st.pids[key] ELSE <<>>
  IN IF ~HasAdapter(p) THEN st
     ELSE IF got.raised
     THEN LET platform_posts == LoadFromCache(key, st.pids, st.pr)
          IN IF platform_posts # <<>>
             THEN [st EXCEPT !.calls = Append(@, i),
                             !.res = Put(@, p.name, platform_posts)]
             ELSE [st EXCEPT !.calls = Append(@, i)]
     ELSE LET st1 == CachePosts(st, got.posts)
          IN [st1 EXCEPT !.calls = Append(@, i),
                         !.pids = Put(@, key, old \o PostIdsOf(got.posts)),
                         !.lft = Put(@, key, t),
                         !.res = Put(@, p.name, got.posts)]

(* lines 318-363: one iteration of the fetch loop *)
FetchPlatform(st, i, net, t) ==
  LET p == Platforms[i]
      key == CacheKey(p)
      got == IF p.type = "substack" THEN fetch_substack_posts(p, MaxPosts, net)
             ELSE fetch_medium_posts(p, MaxPosts, net)
  IN IF ~HasAdapter(p) THEN st
     ELSE IF got.raised
     THEN LET platform_posts == LoadFromCache(key, st.pids, st.pr)
          IN IF platform_posts # <<>>
             THEN [st EXCEPT !.calls = Append(@, i),
                             !.res = Put(@, p.name, platform_posts)]
             ELSE [st EXCEPT !.calls = Append(@, i)]
     ELSE LET st1 == CachePosts(st, got.posts)
          IN [st1 EXCEPT !.calls = Append(@, i),
                         !.pids = Put(@, key, PostIdsOf(got.posts)),
                         !.lft = Put(@, key, t),
                         !.res = Put(@, p.name, got.posts)]

RECURSIVE FetchLoop(_, _, _, _)
FetchLoop(st, to_fetch, nets, t) ==
  IF to_fetch = <<>> THEN st
  ELSE FetchLoop(FetchPlatform(st, Head(to_fetch), nets[Head(to_fetch)], t),
                 Tail(to_fetch), nets, t)

RECURSIVE EmbedEvery(_, _, _)
EmbedEvery(acc, ids, postOf) ==
  IF ids = <<>> THEN acc
  ELSE LET id == Head(ids)
           text == EmbeddingText(postOf[id])
       IN EmbedEvery([acc EXCEPT !.emb = Put(@, id, calculate_embedding(text)),
                                 !.encoded = Append(@, PySliceTo(text, TextCap))],
                     Tail(ids), postOf)

(* lines 366-371, 547-551: embed each listed post that has no cache entry *)
RECURSIVE EmbedMissing(_, _, _)
EmbedMissing(acc, ids, postOf) ==
  IF ids = <<>> THEN acc
  ELSE LET id == Head(ids)
           text == EmbeddingText(postOf[id])
       IN IF id \in DOMAIN acc.emb
          THEN EmbedMissing(acc, Tail(ids), postOf)
          ELSE EmbedMissing([acc EXCEPT !.emb = Put(@, id, calculate_embedding(text)),
                                        !.encoded = Append(@, PySliceTo(text, TextCap))],
                            Tail(ids), postOf)

get_embedding_model_reloading(mdl, ld) ==
  IF ld THEN [raised |-> FALSE, model |-> "loaded", loads |-> 1]
  ELSE [raised |-> TRUE, model |-> mdl, loads |-> 0]

(* get_embedding_model: the model is loaded on the first use; ld tells     *)
(* whether SentenceTransformer(...) succeeds when it is called             *)
get_embedding_model(mdl, ld) ==
  IF mdl = "None"
  THEN IF ld THEN [raised |-> FALSE, model |-> "loaded", loads |-> 1]
       ELSE [raised |-> TRUE, model |-> "None", loads |-> 0]
  ELSE [raised |-> FALSE, model |-> mdl, loads |-> 0]

(* lines 366-371 with the provider: nothing is embedded when the load raises *)
GenerateEmbeddings(ids, postOf, emb, mdl, ld) ==
  LET needed == \E k \in DOMAIN ids : ids[k] \notin DOMAIN emb
      gm == get_embedding_model(mdl, ld)
      done == EmbedMissing([emb |-> emb, encoded |-> <<>>], ids, postOf)
  IN IF ~needed
     THEN [raised |-> FALSE, emb |-> emb, model |-> mdl, encoded |-> <<>>,
           called |-> FALSE, loads |-> 0]
     ELSE IF gm.raised
     THEN [raised |-> TRUE, emb |-> emb, model |-> gm.model, encoded |-> <<>>,
           called |-> TRUE, loads |-> gm.loads]
     ELSE [raised |-> FALSE, emb |-> done.emb, model |-> gm.model, encoded |-> done.encoded,
           called |-> TRUE, loads |-> gm.loads]

(* the two caches: the "post:" records and their iteration order, the     *)
(* member-ID lists, the last fetch times, and the embedding vectors        *)
EmptyStore ==
  [pr |-> EmptyMap, po |-> <<>>, pids |-> EmptyMap, lft |-> EmptyMap, emb |-> EmptyMap]

Store ==
  [pr |-> post_records, po |-> post_order, pids |-> post_ids,
   lft |-> last_fetch_time, emb |-> embeddings_cache]

(* lines 275-373 run from the store s with no other handler in between,    *)
(* the first n sources of Platforms being configured                       *)
get_all_content(s, n, refresh, t, nets, mdl, ld) ==
  LET part == PartitionPlatforms(s, n, 1, refresh, t, [to_fetch |-> <<>>, res |-> EmptyMap])
      st0 == [pr |-> s.pr, po |-> s.po, pids |-> s.pids,
              lft |-> s.lft, res |-> part.res,
              nord |-> <<>>, nmap |-> EmptyMap, calls |-> <<>>]
      st == FetchLoop(st0, part.to_fetch, nets, t)
      ge == GenerateEmbeddings(st.nord, st.nmap, s.emb, mdl, ld)
  IN [pr |-> st.pr, po |-> st.po, pids |-> st.pids, lft |-> st.lft,
      emb |-> ge.emb, model |-> ge.model, raised |-> ge.raised,
      encoded |-> ge.encoded, results |-> st.res, to_fetch |-> part.to_fetch,
      calls |-> st.calls]

(* lines 376-389: every "post:" record, in the iteration order of the cache *)
get_all_posts(pr, po) == DerefIds(po, pr)

SearchCorpusBeforeSync(g) == get_all_posts(post_records, post_order)

(* lines 462-465: search_writing scans the store as get_all_content left it *)
SearchCorpus(g) == get_all_posts(g.pr, g.po)

-----------------------------------------------------------------------------
(* find_similar_posts *)

Reverse(seq) == [k \in 1..Len(seq) |-> seq[Len(seq) + 1 - k]]

(* line 270: key = lambda x: x[1]; the sort compares the keys with <, which *)
(* is False whenever one of them is nan                                    *)
KeyLess(x, y) == ScoreLess(x.score, y.score)

(* count_run of list.sort up to CPython 3.12: the length of the run the    *)
(* list starts with, a strictly descending run or else a non-descending    *)
(* one                                                                     *)
RECURSIVE ExtendRun(_, _, _)
ExtendRun(seq, n, descending) ==
  IF n = Len(seq) THEN n
  ELSE IF KeyLess(seq[n + 1], seq[n]) = descending
       THEN ExtendRun(seq, n + 1, descending)
       ELSE n

CountRun(seq) ==
  IF Len(seq) < 2 THEN [n |-> Len(seq), descending |-> FALSE]
  ELSE LET descending == KeyLess(seq[2], seq[1])
       IN [n |-> ExtendRun(seq, 2, descending), descending |-> descending]

(* binarysort of list.sort: where the pivot goes in seq[1..r], found by    *)
(* bisection between l and r (counted from 0)                              *)
RECURSIVE BinaryPosition(_, _, _, _)
BinaryPosition(seq, pivot, l, r) ==
  IF l >= r THEN l
  ELSE LET p == l + ((r - l) \div 2)
       IN IF KeyLess(pivot, seq[p + 1])
          THEN BinaryPosition(seq, pivot, l, p)
          ELSE BinaryPosition(seq, pivot, p + 1, r)

(* binarysort: seq[1..start] is sorted, the rest is inserted one by one *)
RECURSIVE BinarySort(_, _)
BinarySort(seq, start) ==
  IF start >= Len(seq) THEN seq
  ELSE LET pivot == seq[start + 1]
           l == BinaryPosition(seq, pivot, 0, start)
       IN BinarySort(SubSeq(seq, 1, l) \o <<pivot>> \o SubSeq(seq, l + 1, start)
                       \o SubSeq(seq, start + 2, Len(seq)),
                     start + 1)

(* seq with the elements at positions from..to in reverse order *)
ReverseSlice(seq, from, to) ==
  SubSeq(seq, 1, from - 1) \o Reverse(SubSeq(seq, from, to)) \o SubSeq(seq, to + 1, Len(seq))

(* count_run of list.sort since CPython 3.13: the end of the non-descending *)
(* run that holds position n                                               *)
RECURSIVE AscendingEnd(_, _)
AscendingEnd(seq, n) ==
  IF n >= Len(seq) \/ KeyLess(seq[n + 1], seq[n]) THEN n
  ELSE AscendingEnd(seq, n + 1)

(* REVERSE_LAST_NEQ: the neq + 1 equal elements that end at position n are *)
(* reversed in place                                                       *)
ReverseLastEqual(seq, n, neq) ==
  IF neq = 0 THEN seq ELSE ReverseSlice(seq, n - neq, n)

(* the descending run is followed: a subrun of equal elements (neither is  *)
(* less than the other) is reversed on the way, so that the reversal of    *)
(* the whole run restores its order                                        *)
RECURSIVE DescendingEnd(_, _, _)
DescendingEnd(seq, n, neq) ==
  IF n >= Len(seq) THEN [seq |-> seq, n |-> n, neq |-> neq]
  ELSE IF KeyLess(seq[n + 1], seq[n])
       THEN DescendingEnd(ReverseLastEqual(seq, n, neq), n + 1, 0)
  ELSE IF KeyLess(seq[n], seq[n + 1])
       THEN [seq |-> seq, n |-> n, neq |-> neq]
  ELSE DescendingEnd(seq, n + 1, neq + 1)

(* count_run since CPython 3.13, for a list of two elements or more: the   *)
(* list with its first run made ascending, and the length of that run      *)
CountRun313(seq) ==
  LET up == AscendingEnd(seq, 1)
  IN IF up = Len(seq) \/ (up > 1 /\ KeyLess(seq[1], seq[up]))
     THEN [seq |-> seq, n |-> up]
     ELSE LET equal == IF up > 1 THEN ReverseSlice(seq, 1, up) ELSE seq
              d == DescendingEnd(equal, up + 1, 0)
              asc == ReverseSlice(ReverseLastEqual(d.seq, d.n, d.neq), 1, d.n)
          IN [seq |-> asc, n |-> AscendingEnd(asc, d.n)]

(* the implementations of list.sort: count_run was rewritten in CPython    *)
(* 3.13.  On keys that < orders totally the two give the same list; on     *)
(* keys with a nan they can give different ones                            *)
Interpreters == {"cpython312", "cpython313"}

(* the ascending sort of list.sort for a list shorter than 64: the first   *)
(* run is found and made ascending, then binarysort inserts the rest       *)
SortAscending(seq, interpreter) ==
  IF Len(seq) < 2 THEN seq
  ELSE IF interpreter = "cpython313"
  THEN LET run == CountRun313(seq)
       IN BinarySort(run.seq, run.n)
  ELSE LET run == CountRun(seq)
           first == SubSeq(seq, 1, run.n)
           rest == SubSeq(seq, run.n + 1, Len(seq))
       IN BinarySort((IF run.descending THEN Reverse(first) ELSE first) \o rest, run.n)

(* line 270: results.sort(key = score, reverse = True): the list is        *)
(* reversed, sorted ascending and reversed again                           *)
SortByScore(results, interpreter) ==
  Reverse(SortAscending(Reverse(results), interpreter))

RECURSIVE ScorePostsNotCaching(_, _, _)
ScorePostsNotCaching(acc, all_posts, query_embedding) ==
  IF all_posts = <<>> THEN acc
  ELSE LET post == Head(all_posts)
           text == EmbeddingText(post)
           hit == post.id \in DOMAIN acc.emb
           embedding == IF hit THEN acc.emb[post.id] ELSE calculate_embedding(text)
           acc1 == [acc EXCEPT
                      !.encoded = IF hit THEN @ ELSE Append(@, PySliceTo(text, TextCap)),
                      !.results = Append(@, [post |-> post,
                                             score |-> Cosine(query_embedding, embedding)])]
       IN ScorePostsNotCaching(acc1, Tail(all_posts), query_embedding)

(* lines 252-267: score every post, filling the embedding cache on a miss *)
RECURSIVE ScorePosts(_, _, _)
ScorePosts(acc, all_posts, query_embedding) ==
  IF all_posts = <<>> THEN acc
  ELSE LET post == Head(all_posts)
           text == EmbeddingText(post)
           hit == post.id \in DOMAIN acc.emb
           embedding == IF hit THEN acc.emb[post.id] ELSE calculate_embedding(text)
           acc1 == [acc EXCEPT
                      !.emb = IF hit THEN @ ELSE Put(@, post.id, embedding),
                      !.encoded = IF hit THEN @ ELSE Append(@, PySliceTo(text, TextCap)),
                      !.results = Append(@, [post |-> post,
                                             score |-> Cosine(query_embedding, embedding)])]
       IN ScorePosts(acc1, Tail(all_posts), query_embedding)

(* line 247: the configured count replaces the argument when positive *)
TopNOf(custom_top_n, top_n) ==
  IF custom_top_n > 0 THEN custom_top_n ELSE top_n

(* lines 245-247 with the similar_posts_count of config.json *)
EffectiveTopN(top_n) == TopNOf(SimilarPostsCount, top_n)

find_similar_posts_embedding_first(query, all_posts, top_n, emb, mdl, ld, interpreter) ==
  LET gm == get_embedding_model(mdl, ld)
      query_embedding == calculate_embedding(query)
      scored == ScorePosts([emb |-> emb, encoded |-> <<PySliceTo(query, TextCap)>>,
                            results |-> <<>>], all_posts, query_embedding)
  IN IF gm.raised
     THEN [raised |-> TRUE, emb |-> emb, model |-> gm.model, encoded |-> <<>>, ranked |-> <<>>,
           called |-> TRUE, loads |-> gm.loads]
     ELSE [raised |-> FALSE, emb |-> scored.emb, model |-> gm.model,
           encoded |-> scored.encoded,
           ranked |-> PySliceTo(SortByScore(scored.results, interpreter), EffectiveTopN(top_n)),
           called |-> TRUE, loads |-> gm.loads]

(* lines 239-272, custom_top_n being the similar_posts_count that          *)
(* load_config() gives (line 246)                                          *)
find_similar_posts_configured(custom_top_n, query, all_posts, top_n, emb, mdl, ld, interpreter) ==
  LET gm == get_embedding_model(mdl, ld)
      query_embedding == calculate_embedding(query)
      scored == ScorePosts([emb |-> emb, encoded |-> <<PySliceTo(query, TextCap)>>,
                            results |-> <<>>], all_posts, query_embedding)
  IN IF all_posts = <<>>
     THEN [raised |-> FALSE, emb |-> emb, model |-> mdl, encoded |-> <<>>, ranked |-> <<>>,
           called |-> FALSE, loads |-> 0]
     ELSE IF gm.raised
     THEN [raised |-> TRUE, emb |-> emb, model |-> gm.model, encoded |-> <<>>, ranked |-> <<>>,
           called |-> TRUE, loads |-> gm.loads]
     ELSE [raised |-> FALSE, emb |-> scored.emb, model |-> gm.model,
           encoded |-> scored.encoded,
           ranked |-> PySliceTo(SortByScore(scored.results, interpreter),
                                TopNOf(custom_top_n, top_n)),
           called |-> TRUE, loads |-> gm.loads]

(* lines 239-272 with the similar_posts_count of config.json *)
find_similar_posts(query, all_posts, top_n, emb, mdl, ld, interpreter) ==
  find_similar_posts_configured(SimilarPostsCount, query, all_posts, top_n, emb, mdl, ld,
                                interpreter)

-----------------------------------------------------------------------------
(* Inputs of a call *)

(* the outcomes of loading the model, which is attempted only when the    *)
(* handle is None                                                          *)
LoadOutcomes(mdl) == IF mdl = "None" THEN BOOLEAN ELSE { TRUE }

(* what a step did.  kind names the handler, step tells whether the call   *)
(* started ("begin") or went on after an await ("resume"); src is the      *)
(* source whose adapter returned in the step and net what its request      *)
(* gave, had the articles the store held for that source before the step;  *)
(* done tells that the call ended in the step; t, to_fetch, calls and      *)
(* results are those of the call so far; synced holds the texts            *)
(* get_all_content embedded, encoded every text given to the provider      *)
NoOp ==
  [ kind |-> "init", step |-> "", src |-> 0, net |-> NoCall, had |-> <<>>,
    done |-> FALSE,
    t |-> 0, refresh |-> FALSE, query |-> "", top_n |-> 0,
    to_fetch |-> <<>>, calls |-> <<>>, results |-> EmptyMap, raised |-> FALSE,
    synced |-> <<>>, encoded |-> <<>>, ranked |-> <<>>, corpus |-> <<>>,
    reply |-> "", loads |-> 0 ]

-----------------------------------------------------------------------------
(* Coroutines.  The handlers run on one event loop: a call runs without    *)
(* interruption from its start or its resumption to its next await, and    *)
(* the only awaits of get_all_content are the adapter calls of lines 322   *)
(* and 324, which suspend at `await client.get` (lines 127, 179).  tasks   *)
(* holds the locals of the calls that are suspended, oldest first, and     *)
(* begun counts the calls made                                             *)

(* who calls a handler in a behaviour, each once: the start of the process *)
(* (preload_all_content) or a client, and then a client.  Their calls can  *)
(* overlap                                                                 *)
Callers == <<"c1", "c2">>

(* lines 127, 179: the adapter of source i reaches its await *)
Suspends(i) == HasAdapter(Platforms[i]) /\ Platforms[i].has_url

(* the shared store with the locals of a call *)
CallState(res, nord, nmap, calls) ==
  [ pr |-> post_records, po |-> post_order, pids |-> post_ids,
    lft |-> last_fetch_time, res |-> res,
    nord |-> nord, nmap |-> nmap, calls |-> calls ]

(* lines 318-363 from the top of an iteration to the next await: the       *)
(* iterations of the sources whose adapter does not suspend run on the way *)
RECURSIVE RunToAwait(_, _, _)
RunToAwait(st, pending, t) ==
  IF pending = <<>> \/ Suspends(Head(pending))
  THEN [st |-> st, pending |-> pending]
  ELSE RunToAwait(FetchPlatform(st, Head(pending), NoCall, t), Tail(pending), t)

(* the end of a call, past the fetch loop.  get_all_content generates the  *)
(* embeddings of the new posts (lines 365-371) and returns or raises; then *)
(* search_writing scans the store and ranks (lines 465-471), and           *)
(* preload_all_content embeds every stored post (lines 540-555).  ld tells *)
(* whether the model loads if it has to be loaded                          *)
Finish(kind, query, st, ld) ==
  LET ge == GenerateEmbeddings(st.nord, st.nmap, embeddings_cache, model, ld)
      all_posts == SearchCorpus(st)
      f == IF kind = "search_writing"
           THEN find_similar_posts(query, all_posts, SimilarPostsCount,
                                   ge.emb, ge.model, ld, python)
           ELSE GenerateEmbeddings(PostIdsOf(all_posts),
                                   [id \in DOMAIN st.pr |-> from_dict(st.pr[id])],
                                   ge.emb, ge.model, ld) @@ [ranked |-> <<>>]
      more == kind # "refresh_content" /\ ~ge.raised
  IN [ emb |-> IF more THEN f.emb ELSE ge.emb,
       model |-> IF more THEN f.model ELSE ge.model,
       raised |-> ge.raised \/ (more /\ f.raised),
       synced |-> ge.encoded,
       encoded |-> IF more THEN ge.encoded \o f.encoded ELSE ge.encoded,
       corpus |-> IF more THEN PostIdsOf(all_posts) ELSE <<>>,
       ranked |-> IF more THEN f.ranked ELSE <<>>,
       top_n |-> IF kind = "search_writing" /\ more THEN SimilarPostsCount ELSE 0,
       loads |-> IF more THEN ge.loads + f.loads ELSE ge.loads,
       reply |-> IF ge.raised \/ (more /\ f.raised) THEN "error"
                 ELSE IF kind = "refresh_content" THEN "refreshed"
                 ELSE IF kind = "preload_all_content" THEN ""
                 ELSE IF f.ranked = <<>> THEN "no_matches" ELSE "results" ]

(* what a call does between two awaits: r is where the fetch loop stopped  *)
(* and rest the other suspended calls.  At an await the call is suspended  *)
(* with its locals; past the loop it ends                                  *)
Segment(call, r, rest, step, src, net, had) ==
  /\ post_records' = r.st.pr
  /\ post_order' = r.st.po
  /\ post_ids' = r.st.pids
  /\ last_fetch_time' = r.st.lft
  /\ now' = now
  /\ python' = python
  /\ IF r.pending # <<>>
     THEN /\ tasks' = Append(rest, [ call EXCEPT
                                       !.pending = r.pending, !.res = r.st.res,
                                       !.nord = r.st.nord, !.nmap = r.st.nmap,
                                       !.calls = r.st.calls ])
          /\ UNCHANGED <<embeddings_cache, model>>
          /\ lastOp' = [NoOp EXCEPT
                          !.kind = call.kind, !.step = step, !.src = src, !.net = net,
                          !.had = had,
                          !.t = call.t, !.refresh = call.refresh, !.query = call.query,
                          !.to_fetch = call.to_fetch,
                          !.calls = r.st.calls, !.results = r.st.res]
     ELSE \E ld \in LoadOutcomes(model) :
          \E e \in { Finish(call.kind, call.query, r.st, ld) } :
            /\ tasks' = rest
            /\ embeddings_cache' = e.emb
            /\ model' = e.model
            /\ lastOp' = [NoOp EXCEPT
                            !.kind = call.kind, !.step = step, !.src = src, !.net = net,
                            !.had = had, !.done = TRUE,
                            !.t = call.t, !.refresh = call.refresh, !.query = call.query,
                            !.to_fetch = call.to_fetch,
                            !.calls = r.st.calls, !.results = r.st.res,
                            !.raised = e.raised, !.synced = e.synced,
                            !.encoded = e.encoded, !.corpus = e.corpus,
                            !.ranked = e.ranked, !.top_n = e.top_n,
                            !.reply = e.reply, !.loads = e.loads]

(* the process is starting: preload_all_content, which asyncio.run (line   *)
(* 562) runs alone before the server takes a request, is still running     *)
Preloading == tasks # <<>> /\ tasks[1].kind = "preload_all_content"

(* line 562: preload_all_content has raised (the embedding model did not   *)
(* load), asyncio.run has raised with it and the process has ended before  *)
(* mcp.run                                                                 *)
Ended == lastOp.kind = "preload_all_content" /\ lastOp.raised

(* a handler is called: lines 277-314 and on to the first await.  n is the *)
(* number of configured sources and queries the queries a client can make *)
Begin(kind, n, queries) ==
  /\ ~Preloading
  /\ ~Ended
  /\ begun < Len(Callers)
  /\ begun' = begun + 1
  /\ \E query \in (IF kind = "search_writing" THEN queries ELSE {""}) :
     \E refresh \in { kind # "search_writing" } :
     \E part \in { PartitionPlatforms(Store, n, 1, refresh, now,
                                      [to_fetch |-> <<>>, res |-> EmptyMap]) } :
     \E r \in { RunToAwait(CallState(part.res, <<>>, EmptyMap, <<>>),
                           part.to_fetch, now) } :
       Segment([kind |-> kind, refresh |-> refresh, query |-> query, t |-> now,
                to_fetch |-> part.to_fetch, pending |-> part.to_fetch,
                res |-> part.res, nord |-> <<>>, nmap |-> EmptyMap, calls |-> <<>>],
               r, tasks, "begin", 0, NoCall, <<>>)

(* the awaited adapter of a suspended call returns: lines 322-348 and on   *)
(* to the next await.  outcomes[i] is what the request of source i can     *)
(* give                                                                    *)
Resume(outcomes) ==
  /\ begun' = begun
  /\ \E k \in DOMAIN tasks :
    \E task \in { tasks[k] } :
    \E i \in { Head(task.pending) } :
    \E net \in outcomes[i] :
    \E r \in { RunToAwait(FetchPlatform(CallState(task.res, task.nord, task.nmap,
                                                  task.calls), i, net, task.t),
                          Tail(task.pending), task.t) } :
      Segment(task, r, SubSeq(tasks, 1, k - 1) \o SubSeq(tasks, k + 1, Len(tasks)),
              "resume", i, net,
              LoadFromCache(CacheKey(Platforms[i]), post_ids, post_records))

-----------------------------------------------------------------------------
(* Operations *)

(* lines 35-41: the caches are on disk, so a process starts with the store *)
(* an earlier process left, with no model and no call in flight            *)
StartFrom(stores) ==
  \E s \in stores :
    /\ post_records = s.pr
    /\ post_order = s.po
    /\ post_ids = s.pids
    /\ last_fetch_time = s.lft
    /\ embeddings_cache = s.emb
    /\ model = "None"
    /\ python \in Interpreters
    /\ now = 0
    /\ lastOp = NoOp
    /\ tasks = <<>>
    /\ begun = 0

(* what the network gave to the process that ran before: the first entry *)
(* of each feed that has entries                                          *)
EarlierNets ==
  [k \in PlatformIdx |->
     IF \E e \in EntriesOf(k) : e.content = "c1"
     THEN [kind |-> "feed",
           entries |-> <<CHOOSE e \in EntriesOf(k) : e.content = "c1">>]
     ELSE NoCall]

(* what the request of source k can have given to an earlier process: an  *)
(* error, or a feed of at most one entry                                  *)
EarlierOutcomes(k) ==
  { [kind |-> "error", entries |-> <<>>] }
    \cup { [kind |-> "feed", entries |-> e] : e \in SeqsUpTo(EntriesOf(k), 1) }

(* what the requests of an earlier process can have given, source by      *)
(* source, the first n sources being configured and outcomes[k] being     *)
(* what the request of source k can give                                   *)
EarlierNetsOf(n, outcomes) ==
  { nets \in [PlatformIdx -> UNION { outcomes[k] : k \in PlatformIdx } \cup { NoCall }] :
      \A k \in PlatformIdx :
        IF k <= n /\ Suspends(k) THEN nets[k] \in outcomes[k] ELSE nets[k] = NoCall }

(* lines 562, 275-373: the caches a process leaves that was started as    *)
(* __main__ on an empty .cache, its requests giving nets and its load of   *)
(* the embedding model succeeding or not (ld)                              *)
LeftBy(n, nets, ld) ==
  [x \in DOMAIN EmptyStore |->
     get_all_content(EmptyStore, n, TRUE, 0, nets, "None", ld)[x]]

(* the stores a process can find when it starts: an empty .cache, or what  *)
(* an earlier process left: every source fetched or not, the posts         *)
(* embedded or, when the model did not load, stored without vectors        *)
PersistedStores ==
  { EmptyStore }
    \cup { LeftBy(Len(Platforms), nets, ld) :
             nets \in EarlierNetsOf(Len(Platforms),
                                    [k \in PlatformIdx |-> EarlierOutcomes(k)]),
             ld \in BOOLEAN }

Init == StartFrom(PersistedStores)

(* lines 435-447: refresh_content is called *)
refresh_content == Begin("refresh_content", Len(Platforms), {})

(* lines 450-528: search_writing is called *)
search_writing == Begin("search_writing", Len(Platforms), Queries)

(* lines 531-562: preload_all_content is called once, as the process       *)
(* starts                                                                  *)
preload_all_content ==
  /\ lastOp.kind = "init"
  /\ Begin("preload_all_content", Len(Platforms), {})

(* the request of an adapter completes and its call goes on *)
adapter_returns == Resume([i \in PlatformIdx |-> NetOutcomes(i)])

(* time passes; before the process starts nothing else has happened *)
Tick ==
  /\ ~Ended
  /\ now < MaxTime
  /\ now' = now + 1
  /\ lastOp' = IF lastOp.kind = "init" THEN lastOp ELSE [NoOp EXCEPT !.kind = "tick"]
  /\ UNCHANGED <<post_records, post_order, post_ids, last_fetch_time,
                 embeddings_cache, model, python, tasks, begun>>

Next ==
  \/ refresh_content
  \/ search_writing
  \/ preload_all_content
  \/ adapter_returns
  \/ Tick

Spec == Init /\ [][Next]_vars

TypeOK ==
  /\ DOMAIN post_records = SeqRange(post_order)
  /\ model \in {"None", "loaded"}
  /\ python \in Interpreters
  /\ now \in 0..MaxTime
  /\ begun \in 0..Len(Callers)
  /\ Len(tasks) <= begun

-----------------------------------------------------------------------------
(* The search engine, over posts with bodies longer than the cut of line   *)
(* 370, texts the provider maps to the zero vector, entries a feed lists   *)
(* twice and articles published on both platforms                          *)

RECURSIVE Rep(_, _)
Rep(s, n) ==
  IF n = 0 THEN ""
  ELSE IF n % 2 = 0 THEN LET h == Rep(s, n \div 2) IN h \o h
  ELSE s \o Rep(s, n - 1)

(* a body of exactly content[:5000] characters *)
LongBody == Rep("x", ContentCap)

Entry(title, link, content) == [title |-> title, link |-> link, content |-> content]

(* what the feeds serve here: the substack feed lists two articles, the    *)
(* second of a text the provider maps to the zero vector, or one article   *)
(* twice, with the same content or not, or two articles whose bodies are   *)
(* longer than the cut and differ after it; the medium feed lists its      *)
(* article or a copy of the first article of the substack feed             *)
PostFeedsOf(i) ==
  IF i = 1
  THEN { << Entry("T1", "a/1", "c1"), Entry("T1", "a/2", "c0") >>,
         << Entry("T1", "a/1", "c1"), Entry("T1", "a/1", "c1") >>,
         << Entry("T1", "a/1", "c1"), Entry("T1", "a/1", "c2") >>,
         << Entry("T1", "a/1", LongBody \o "y"), Entry("T1", "a/2", LongBody \o "z") >> }
  ELSE IF i = 2
  THEN { << Entry("TB", "b/1", "c1") >>, << Entry("T1", "a/1", "c1") >> }
  ELSE {}

PostOutcomes(i) ==
  { [kind |-> "error", entries |-> <<>>] }
    \cup { [kind |-> "feed", entries |-> e] : e \in PostFeedsOf(i) }

PostQueries == {"q1", "q0"}

(* a call of find_similar_posts(query, get_all_posts(), top_n) *)
search ==
  /\ ~Preloading
  /\ ~Ended
  /\ \E ld \in LoadOutcomes(model), query \in PostQueries, top_n \in 0..MaxTopN :
      \E all_posts \in { get_all_posts(post_records, post_order) } :
      \E f \in { find_similar_posts(query, all_posts, top_n, embeddings_cache, model, ld,
                                  python) } :
         /\ embeddings_cache' = f.emb
         /\ model' = f.model
         /\ lastOp' = [NoOp EXCEPT
                         !.kind = "search", !.done = TRUE, !.query = query, !.top_n = top_n,
                         !.raised = f.raised, !.encoded = f.encoded,
                         !.corpus = PostIdsOf(all_posts), !.ranked = f.ranked,
                         !.loads = f.loads,
                         !.reply = IF f.raised THEN "error" ELSE ""]
         /\ UNCHANGED <<post_records, post_order, post_ids, last_fetch_time, python, now,
                        tasks, begun>>

refresh_posts == Begin("refresh_content", Len(Platforms), {})

search_posts == Begin("search_writing", Len(Platforms), PostQueries)

preload_posts ==
  /\ lastOp.kind = "init"
  /\ Begin("preload_all_content", Len(Platforms), {})

post_feed_returns == Resume([i \in PlatformIdx |-> PostOutcomes(i)])

NextPosts ==
  \/ refresh_posts
  \/ search_posts
  \/ preload_posts
  \/ post_feed_returns
  \/ search

(* what the requests gave to an earlier process: source 1 was served its   *)
(* two long articles and source 2 its own article, or their requests       *)
(* failed                                                                  *)
EarlierPostOutcomes ==
  [k \in PlatformIdx |->
     { [kind |-> "error", entries |-> <<>>] }
       \cup { [kind |-> "feed", entries |-> e] :
                e \in { f \in PostFeedsOf(k) :
                          \/ Len(f[1].content) > ContentCap
                          \/ f[1].title = "TB" } }]

(* lines 35-38, 370: an empty .cache, or what an earlier process left      *)
(* whose load of the embedding model failed: records without vectors       *)
PostStores ==
  { EmptyStore }
    \cup { LeftBy(Len(Platforms), nets, FALSE) :
             nets \in EarlierNetsOf(Len(Platforms), EarlierPostOutcomes) }

SpecPosts == StartFrom(PostStores) /\ [][NextPosts]_vars

-----------------------------------------------------------------------------
(* The store under eviction: posts_cache is a diskcache.Cache with a size  *)
(* limit, which culls entries when it is over the limit                    *)

(* line 37: a "post:<id>" entry is culled *)
cull_post ==
  \E id \in DOMAIN post_records :
    /\ post_records' = [x \in DOMAIN post_records \ {id} |-> post_records[x]]
    /\ post_order' = SelectSeq(post_order, LAMBDA x : x # id)
    /\ lastOp' = [NoOp EXCEPT !.kind = "cull_post"]
    /\ UNCHANGED <<post_ids, last_fetch_time, embeddings_cache, model, python, now,
                   tasks, begun>>

(* what the network gave to the process that ran before: two articles of  *)
(* source 1, and the first entry of the feed of each other source          *)
CullNets ==
  [k \in PlatformIdx |->
     IF k = 1
     THEN [kind |-> "feed",
           entries |-> << [title |-> "T1", link |-> "a/1", content |-> "c1"],
                          [title |-> "T2", link |-> "a/2", content |-> "c0"] >>]
     ELSE EarlierNets[k]]

(* lines 35-38: the store that process left, fetched with max_posts 2 *)
CullStores ==
  { [x \in DOMAIN EmptyStore |->
       get_all_content(EmptyStore, Len(Platforms), TRUE, 0,
                          CullNets, "None", TRUE)[x]] }

NextCull ==
  \/ cull_post
  \/ search_writing
  \/ adapter_returns
  \/ Tick

SpecCull == StartFrom(CullStores) /\ [][NextCull]_vars

-----------------------------------------------------------------------------
(* A configuration of the sources that can be fetched: with the four       *)
(* sources of Platforms two are due in every call                          *)

FreshCount == Cardinality({ i \in PlatformIdx : Suspends(i) })

FreshIdx == 1..FreshCount

FreshStores ==
  { EmptyStore,
    [x \in DOMAIN EmptyStore |->
       get_all_content(EmptyStore, FreshCount, TRUE, 0,
                          EarlierNets, "None", TRUE)[x]] }

(* what the request of the adapter of source i can give: an error, a feed *)
(* of NetOutcomes or, for source 1, a feed that lists one article twice,   *)
(* the second time with other content                                     *)
FreshOutcomes(i) ==
  NetOutcomes(i)
    \cup (IF i = 1
          THEN { [kind |-> "feed",
                  entries |-> << [title |-> "T1", link |-> "a/1", content |-> "c1"],
                                 [title |-> "T1", link |-> "a/1", content |-> "c2"] >>] }
          ELSE {})

refresh_fresh == Begin("refresh_content", FreshCount, {})

fresh_feed_returns == Resume([i \in PlatformIdx |-> FreshOutcomes(i)])

search_fresh == Begin("search_writing", FreshCount, Queries)

NextFresh ==
  \/ refresh_fresh
  \/ search_fresh
  \/ fresh_feed_returns
  \/ Tick

SpecFresh == StartFrom(FreshStores) /\ [][NextFresh]_vars

-----------------------------------------------------------------------------
(* The search over a store that grew over several runs of the process: the *)
(* substack feed served other articles each time, one of them of a text    *)
(* the provider maps to the zero vector, and config.json asks for the      *)
(* first TieCount results                                                  *)

(* config["similar_posts_count"] of this configuration (line 246) *)
TieCount == 4

(* what the substack feed served to the runs of the process, one feed per  *)
(* run, each of max_posts entries at most                                  *)
TieFeeds ==
  << << Entry("T1", "a/1", "c1"), Entry("T1", "a/2", "c1") >>,
     << Entry("T1", "a/3", "c1"), Entry("T1", "a/4", "c1") >>,
     << Entry("T1", "a/5", "c0"), Entry("T1", "a/6", "c1") >>,
     << Entry("T1", "a/7", "c2") >> >>

(* the orders in which the runs can have been served the feeds *)
TieOrders ==
  { order \in [DOMAIN TieFeeds -> DOMAIN TieFeeds] :
      \A j, k \in DOMAIN TieFeeds : order[j] = order[k] => j = k }

(* lines 562, 275-373: the caches after the runs of order from position k  *)
(* on, started on the caches s: each run is served one feed by source 1,   *)
(* the requests of its other sources fail, and its model loads             *)
RECURSIVE LeftByRuns(_, _, _)
LeftByRuns(s, order, k) ==
  IF k > Len(TieFeeds) THEN s
  ELSE LET nets == [i \in PlatformIdx |->
                      IF i = 1 THEN [kind |-> "feed", entries |-> TieFeeds[order[k]]]
                      ELSE IF Suspends(i) THEN [kind |-> "error", entries |-> <<>>]
                      ELSE NoCall]
           left == get_all_content(s, Len(Platforms), TRUE, 0, nets, "None", TRUE)
       IN LeftByRuns([x \in DOMAIN EmptyStore |-> left[x]], order, k + 1)

(* lines 35-38: the stores those runs leave *)
TieStores == { LeftByRuns(EmptyStore, order, 1) : order \in TieOrders }

(* a call of find_similar_posts(query, get_all_posts(), top_n) under this  *)
(* configuration                                                           *)
search_ties ==
  \E ld \in LoadOutcomes(model), query \in PostQueries, top_n \in 0..MaxTopN :
    \E all_posts \in { get_all_posts(post_records, post_order) } :
    \E f \in { find_similar_posts_configured(TieCount, query, all_posts, top_n,
                                              embeddings_cache, model, ld, python) } :
       /\ embeddings_cache' = f.emb
       /\ model' = f.model
       /\ lastOp' = [NoOp EXCEPT
                       !.kind = "search", !.done = TRUE, !.query = query, !.top_n = top_n,
                       !.raised = f.raised, !.encoded = f.encoded,
                       !.corpus = PostIdsOf(all_posts), !.ranked = f.ranked,
                       !.loads = f.loads,
                       !.reply = IF f.raised THEN "error" ELSE ""]
       /\ UNCHANGED <<post_records, post_order, post_ids, last_fetch_time, python, now,
                      tasks, begun>>

NextTies == search_ties

SpecTies == StartFrom(TieStores) /\ [][NextTies]_vars

-----------------------------------------------------------------------------
(* Properties *)

GacKinds == {"refresh_content", "search_writing", "preload_all_content"}

SearchKinds == {"search", "search_writing"}

KeyOf(i) == CacheKey(Platforms[i])

NameOf(i) == Platforms[i].name

(* the step is one in which the adapter of a source returned *)
Returned(op) == op.step = "resume"

(* the step is one in which the adapter of a source returned a feed *)
Fetched(op) == op.step = "resume" /\ op.net.kind = "feed"

(* the articles the adapter that returned in the step built from its feed *)
FetchedPosts(op) ==
  EntryPosts(op.net.entries, MaxPosts, Platforms[op.src].type, NameOf(op.src))

NoDuplicates(seq) == \A j, k \in DOMAIN seq : seq[j] = seq[k] => j = k

StoredIds == PostIdsOf(get_all_posts(post_records, post_order))

SameAt(f, g, key) ==
  /\ (key \in DOMAIN f) = (key \in DOMAIN g)
  /\ key \in DOMAIN f => f[key] = g[key]

(* C1: TTL gating.  When get_all_content starts, a configured source is    *)
(* put on the list of sources to fetch if and only if it is due: refresh   *)
(* is true, or no last_fetch_time is stored under its cache key, or        *)
(* now - last_fetch_time is strictly greater than cache_duration; and when *)
(* the call ends the adapters it has invoked are exactly those of the      *)
(* sources on that list.                                                   *)
C1_TTLGating ==
  [][ /\ lastOp'.step = "begin" =>
           \A i \in PlatformIdx :
             (\E k \in DOMAIN lastOp'.to_fetch : lastOp'.to_fetch[k] = i) <=>
                \/ lastOp'.refresh
                \/ KeyOf(i) \notin DOMAIN last_fetch_time
                \/ now - last_fetch_time[KeyOf(i)] > CacheDuration
      /\ lastOp'.done /\ lastOp'.kind \in GacKinds =>
           lastOp'.calls = SelectSeq(lastOp'.to_fetch, LAMBDA i : HasAdapter(Platforms[i]))
    ]_vars

(* a freshness check made exactly cache_duration after the fetch of        *)
(* source 1: its adapter is not invoked and its articles come from the     *)
(* store                                                                   *)
C1_Witness ==
  /\ lastOp.kind = "search_writing"
  /\ lastOp.done
  /\ KeyOf(1) \in DOMAIN last_fetch_time
  /\ lastOp.t - last_fetch_time[KeyOf(1)] = CacheDuration
  /\ \A k \in DOMAIN lastOp.calls : lastOp.calls[k] # 1
  /\ NameOf(1) \in DOMAIN lastOp.results
  /\ lastOp.results[NameOf(1)] # <<>>

(* C2: when the adapter of a due source fails (network or parse error),    *)
(* get_all_content leaves the source's last_fetch_time and its member-ID   *)
(* list as they were.                                                      *)
C2_FailureKeepsBookkeeping ==
  [][ (Returned(lastOp') /\ lastOp'.net.kind = "error") =>
        /\ SameAt(last_fetch_time', last_fetch_time, KeyOf(lastOp'.src))
        /\ SameAt(post_ids', post_ids, KeyOf(lastOp'.src)) ]_vars

(* C3: failure isolation.  When the adapter of a source fails, the result  *)
(* of the call holds under its name the last-known cached articles of the  *)
(* source; when the adapter of a source succeeds, the result holds under   *)
(* its name the articles fetched; and the call does not raise (stated for  *)
(* calls that end with the embedding model loaded).                        *)
C3_FailureIsolation ==
  [][ Returned(lastOp') =>
        /\ (lastOp'.net.kind = "error" /\ lastOp'.had # <<>>) =>
              /\ NameOf(lastOp'.src) \in DOMAIN lastOp'.results
              /\ lastOp'.results[NameOf(lastOp'.src)] = lastOp'.had
        /\ lastOp'.net.kind = "feed" =>
              /\ NameOf(lastOp'.src) \in DOMAIN lastOp'.results
              /\ lastOp'.results[NameOf(lastOp'.src)] = FetchedPosts(lastOp')
        /\ (lastOp'.done /\ model = "loaded") => ~lastOp'.raised ]_vars

(* C4 as stated: a forced refresh in which the adapter of a source returns *)
(* the articles the store holds for the source from the previous fetch     *)
(* leaves the post records and the member-ID lists as they were, and no    *)
(* member-ID list holds an ID twice.                                       *)
C4_NoDuplicateIds ==
  [][ (Fetched(lastOp') /\ lastOp'.refresh /\ lastOp'.had = FetchedPosts(lastOp')) =>
        /\ post_records' = post_records
        /\ post_ids' = post_ids
        /\ \A key \in DOMAIN post_ids' : NoDuplicates(post_ids'[key]) ]_vars

(* C4: idempotent refresh.  A forced refresh in which the adapter of a     *)
(* source returns the articles the store holds for the source from the     *)
(* previous fetch leaves the post records, their order and the member-ID   *)
(* lists as they were, and the member-ID list of the source is the id      *)
(* sequence of the articles the adapter returned, so it holds an ID twice  *)
(* only when the adapter returned that article twice.                      *)
C4_IdempotentRefresh ==
  [][ (Fetched(lastOp') /\ lastOp'.refresh /\ lastOp'.had = FetchedPosts(lastOp')) =>
        /\ post_records' = post_records
        /\ post_order' = post_order
        /\ post_ids' = post_ids
        /\ KeyOf(lastOp'.src) \in DOMAIN post_ids'
        /\ post_ids'[KeyOf(lastOp'.src)] = PostIdsOf(FetchedPosts(lastOp'))
        /\ NoDuplicates(PostIdsOf(FetchedPosts(lastOp')))
             => NoDuplicates(post_ids'[KeyOf(lastOp'.src)]) ]_vars

(* the second of two forced refreshes in which the adapter of source 1     *)
(* returned the same two articles                                          *)
C4_Witness ==
  /\ lastOp.kind = "refresh_content"
  /\ Fetched(lastOp)
  /\ lastOp.src = 1
  /\ Len(lastOp.had) = 2
  /\ lastOp.had = FetchedPosts(lastOp)
  /\ NoDuplicates(post_ids[KeyOf(1)])

(* C5: search_writing runs get_all_content(refresh = False) to completion  *)
(* before it scans and ranks: the corpus it ranks is the store as that     *)
(* call left it, so it holds every article that call returned, and         *)
(* nothing is scanned or ranked when get_all_content raises.               *)
C5_FreshnessBeforeRanking ==
  (lastOp.kind = "search_writing" /\ lastOp.done) =>
    /\ ~lastOp.refresh
    /\ \/ /\ lastOp.corpus = StoredIds
          /\ \A name \in DOMAIN lastOp.results :
               \A k \in DOMAIN lastOp.results[name] :
                 lastOp.results[name][k].id \in SeqRange(lastOp.corpus)
          /\ \A k \in DOMAIN lastOp.ranked :
               lastOp.ranked[k].post.id \in SeqRange(lastOp.corpus)
       \/ /\ lastOp.raised
          /\ lastOp.corpus = <<>>
          /\ lastOp.ranked = <<>>

(* a search whose freshness check fetched, in its last step, an article    *)
(* that had no embedding yet and that is ranked in the reply               *)
C5_Witness ==
  /\ lastOp.kind = "search_writing"
  /\ lastOp.reply = "results"
  /\ Fetched(lastOp)
  /\ \E k \in DOMAIN FetchedPosts(lastOp) :
       LET post == FetchedPosts(lastOp)[k]
       IN /\ EmbeddingText(post) \in SeqRange(lastOp.synced)
          /\ \E r \in DOMAIN lastOp.ranked : lastOp.ranked[r].post.id = post.id

(* the sources whose adapter a call has invoked and that sent a request *)
Requested(op) == { i \in SeqRange(op.calls) : Platforms[i].has_url }

(* C6: an embedding cache entry is never recomputed or overwritten: once   *)
(* the cache holds a vector for an id, every later step leaves that vector *)
(* in place, also when a refetch overwrites the post record of the id with *)
(* other content.                                                          *)
C6_EmbeddingsNeverOverwritten ==
  [][ \A id \in DOMAIN embeddings_cache :
        /\ id \in DOMAIN embeddings_cache'
        /\ embeddings_cache'[id] = embeddings_cache[id] ]_vars

(* a call has ended in which a refetch overwrote the content of a post,    *)
(* and the cached vector of the post is still the one computed from the    *)
(* earlier content                                                         *)
C6_Witness ==
  /\ lastOp.kind \in GacKinds
  /\ lastOp.done
  /\ \E i \in Requested(lastOp) :
       \E k \in DOMAIN lastOp.results[NameOf(i)] :
         LET post == lastOp.results[NameOf(i)][k]
         IN /\ post.id \in DOMAIN embeddings_cache
            /\ post_records[post.id] = to_dict(post)
            /\ embeddings_cache[post.id] # calculate_embedding(EmbeddingText(post))

(* C7: when a call of get_all_content returns normally every article it    *)
(* returns for a source it fetched has an embedding cache entry;           *)
(* embeddings are generated after the fetch loop: no step before the end   *)
(* of the call writes a vector, and at the end every fetched source has    *)
(* been stored and stamped whether or not the embedding step raises; and   *)
(* the provider is called once for each id that had no entry and for no    *)
(* other.                                                                  *)
C7_FetchedAreEmbedded ==
  [][ lastOp'.kind \in GacKinds =>
        /\ ~lastOp'.done => embeddings_cache' = embeddings_cache
        /\ lastOp'.done =>
             /\ ~lastOp'.raised =>
                  \A i \in Requested(lastOp') :
                    \A k \in DOMAIN lastOp'.results[NameOf(i)] :
                      lastOp'.results[NameOf(i)][k].id \in DOMAIN embeddings_cache'
             /\ \A i \in Requested(lastOp') :
                  /\ KeyOf(i) \in DOMAIN last_fetch_time'
                  /\ KeyOf(i) \in DOMAIN post_ids'
             /\ lastOp'.kind = "refresh_content" =>
                  /\ lastOp'.encoded = lastOp'.synced
                  /\ Len(lastOp'.synced)
                       = Cardinality(DOMAIN embeddings_cache' \ DOMAIN embeddings_cache)
    ]_vars

(* a refresh that returned normally, fetched articles from both sources    *)
(* and generated an embedding                                              *)
C7_Witness ==
  /\ lastOp.kind = "refresh_content"
  /\ lastOp.done
  /\ ~lastOp.raised
  /\ Requested(lastOp) = {1, 2}
  /\ lastOp.results[NameOf(1)] # <<>>
  /\ lastOp.results[NameOf(2)] # <<>>
  /\ lastOp.synced # <<>>

(* a >= b on floats; False whenever a or b is nan *)
ScoreAtLeast(a, b) == ~IsNaN(a) /\ ~IsNaN(b) /\ ~ScoreLess(a, b)

ScoresNonIncreasing(ranked) ==
  \A k \in 1..(Len(ranked) - 1) : ScoreAtLeast(ranked[k].score, ranked[k + 1].score)

(* the query and the stored articles of a search have vectors of non-zero  *)
(* norm, so every score is a number                                        *)
ScoresDefined(op, emb) ==
  /\ Norm(calculate_embedding(op.query)) # 0
  /\ \A k \in DOMAIN op.corpus :
       op.corpus[k] \in DOMAIN emb /\ Norm(emb[op.corpus[k]]) # 0

(* C8: ranking determinism.  The scores of every search result are         *)
(* non-increasing from first to last, and a search repeated with the same  *)
(* query and top_n over the same stored corpus and the same cached         *)
(* embeddings returns the same ordered list as the search before it.       *)
C8_RankingDeterminism ==
  [][ (lastOp'.kind \in SearchKinds /\ lastOp'.done /\ ~lastOp'.raised) =>
        /\ ScoresNonIncreasing(lastOp'.ranked)
        /\ ( /\ lastOp.kind = lastOp'.kind
             /\ lastOp.done
             /\ lastOp.query = lastOp'.query
             /\ lastOp.top_n = lastOp'.top_n
             /\ ~lastOp.raised
             /\ post_records' = post_records
             /\ post_order' = post_order
             /\ embeddings_cache' = embeddings_cache ) =>
               lastOp'.ranked = lastOp.ranked ]_vars

(* the order without the zero-norm case: when the query and every stored   *)
(* article have vectors of non-zero norm, the scores of a search result    *)
(* are non-increasing from first to last                                   *)
OrderedWhenScoresDefined ==
  (lastOp.kind \in SearchKinds /\ lastOp.done /\ ~lastOp.raised
     /\ ScoresDefined(lastOp, embeddings_cache)) =>
    ScoresNonIncreasing(lastOp.ranked)

(* C9: a search returns exactly the first min(top_n, number of stored      *)
(* articles) entries of the ranking, top_n being the value the caller      *)
(* passed for that call.                                                   *)
C9_CallerTopN ==
  (lastOp.kind = "search" /\ ~lastOp.raised) =>
    Len(lastOp.ranked) = Min(lastOp.top_n, Len(lastOp.corpus))

(* C10: empty corpus.  A search over a store without post records returns  *)
(* the empty list, which search_writing reports as no matches; it does not *)
(* raise, does not call the embedding provider, does not load the model    *)
(* and writes nothing to the embedding cache.                              *)
C10_EmptyCorpus ==
  [][ (lastOp'.kind \in SearchKinds /\ lastOp'.done /\ post_records' = EmptyMap) =>
        /\ ~lastOp'.raised
        /\ lastOp'.ranked = <<>>
        /\ lastOp'.encoded = <<>>
        /\ lastOp'.loads = 0
        /\ embeddings_cache' = embeddings_cache
        /\ model' = model
        /\ lastOp'.kind = "search_writing" => lastOp'.reply = "no_matches" ]_vars

(* search_writing found nothing to rank after a freshness check in which   *)
(* the request of an adapter failed, with the model not loaded             *)
C10_Witness ==
  /\ lastOp.kind = "search_writing"
  /\ lastOp.reply = "no_matches"
  /\ post_records = EmptyMap
  /\ Returned(lastOp)
  /\ lastOp.net.kind = "error"
  /\ model = "None"
  /\ embeddings_cache = EmptyMap

(* C11: degenerate cosine score.  When the query embedding or the          *)
(* embedding of an article has zero norm, the score of the article in the  *)
(* search result is 0 and is not the undefined value nan.                  *)
C11_ZeroNormScoresZero ==
  (lastOp.kind \in SearchKinds /\ lastOp.done /\ ~lastOp.raised) =>
    \A k \in DOMAIN lastOp.ranked :
      LET r == lastOp.ranked[k]
          q == calculate_embedding(lastOp.query)
          e == embeddings_cache[r.post.id]
      IN (Norm(q) = 0 \/ Norm(e) = 0) =>
           (r.score.num = 0 /\ ~IsNaN(r.score))

(* a search has ranked a corpus in which a score is nan, and list.sort of   *)
(* another interpreter gives another ranking of the same scores            *)
OrderByInterpreter ==
  /\ lastOp.kind = "search"
  /\ lastOp.done
  /\ ~lastOp.raised
  /\ \E k \in DOMAIN lastOp.ranked : IsNaN(lastOp.ranked[k].score)
  /\ \E other \in Interpreters \ { python } :
       find_similar_posts(lastOp.query, get_all_posts(post_records, post_order),
                          lastOp.top_n, embeddings_cache, model, TRUE,
                          other).ranked # lastOp.ranked

Prefix(text, n) == SubSeq(text, 1, IF Len(text) > n THEN n ELSE Len(text))

CutText(post) == post.title \o " " \o Prefix(post.content, ContentCap)

(* the articles a step could embed: those the call returned and those the  *)
(* store holds after it                                                    *)
ArticlesOf(op, records) ==
  UNION { SeqRange(op.results[name]) : name \in DOMAIN op.results }
    \cup { from_dict(records[id]) : id \in DOMAIN records }

(* C12: truncation.  At each site that generates article embeddings (the   *)
(* loop of get_all_content, the backfill of find_similar_posts, the loop   *)
(* of preload_all_content) every text passed to the provider for an        *)
(* article is title + " " + the first 5000 characters of content of an     *)
(* article that had no cache entry, and the vector cached for each such    *)
(* article is the provider's vector for that text, so articles with the    *)
(* same title whose contents agree on the first 5000 characters get the    *)
(* same vector.                                                            *)
C12_Truncation ==
  [][ (lastOp'.done /\ ~lastOp'.raised) =>
        \E added \in { DOMAIN embeddings_cache' \ DOMAIN embeddings_cache },
           texts \in { SeqRange(lastOp'.encoded) \ PostQueries },
           articles \in { ArticlesOf(lastOp', post_records') } :
          /\ \A id \in added :
               \E post \in articles :
                 /\ post.id = id
                 /\ CutText(post) \in texts
                 /\ embeddings_cache'[id] = Encode(CutText(post))
          /\ \A text \in texts :
               \E post \in articles : post.id \in added /\ text = CutText(post) ]_vars

(* two stored articles whose bodies are longer than 5000 characters and    *)
(* differ only after the 5000th hold the same vector                       *)
SameVectorPastCut ==
  \E a, b \in DOMAIN post_records :
    /\ a # b
    /\ Len(post_records[a].content) > ContentCap
    /\ post_records[a].content # post_records[b].content
    /\ a \in DOMAIN embeddings_cache /\ b \in DOMAIN embeddings_cache
    /\ embeddings_cache[a] = embeddings_cache[b]

(* texts holds the same text of 5000 body characters twice and no other *)
TwoCutTexts(texts) ==
  /\ Len(texts) = 2
  /\ texts[1] = texts[2]
  /\ Len(texts[1]) = Len("T1 ") + ContentCap

(* line 370: the two articles have been embedded in one pass of the loop   *)
(* of get_all_content                                                      *)
TruncatedAtSync ==
  /\ lastOp.kind \in GacKinds
  /\ lastOp.done
  /\ TwoCutTexts(lastOp.synced)
  /\ SameVectorPastCut

(* line 260: the two articles, stored without vectors by a process whose   *)
(* model did not load, have been embedded by the backfill of               *)
(* find_similar_posts, after the query                                     *)
TruncatedAtBackfill ==
  /\ lastOp.kind = "search"
  /\ lastOp.done
  /\ ~lastOp.raised
  /\ Len(lastOp.encoded) = 3
  /\ lastOp.encoded[1] = lastOp.query
  /\ TwoCutTexts(Tail(lastOp.encoded))
  /\ SameVectorPastCut

(* line 550: the two articles, stored without vectors by a process whose   *)
(* model did not load, have been embedded by the loop of                   *)
(* preload_all_content, whose get_all_content fetched nothing of them      *)
C12_Witness ==
  /\ lastOp.kind = "preload_all_content"
  /\ lastOp.done
  /\ ~lastOp.raised
  /\ lastOp.synced = <<>>
  /\ TwoCutTexts(lastOp.encoded)
  /\ SameVectorPastCut

(* the posts the adapters build from the entries of the feeds *)
PostsServed ==
  UNION { UNION { SeqRange(EntryPosts(feed, Len(feed), Platforms[i].type, NameOf(i))) :
                    feed \in PostFeedsOf(i) } :
            i \in FreshIdx }

(* C13: identity stability.  The id of a post is the digest of its url and *)
(* title and of nothing else: every stored record is stored under the id   *)
(* computed from its url and title, posts built with the same url and      *)
(* title have the same id whatever their content and source (so the store  *)
(* never holds two records with the same url and title), and a post read   *)
(* back from its record has the id it was stored under.                    *)
C13_IdentityStability ==
  /\ \A id \in DOMAIN post_records :
       LET record == post_records[id]
       IN /\ record.id = id
          /\ id = Md5(record.url \o ":" \o record.title)
          /\ from_dict(record).id = id
          /\ to_dict(from_dict(record)) = record
  /\ \A a, b \in DOMAIN post_records :
       ( /\ post_records[a].url = post_records[b].url
         /\ post_records[a].title = post_records[b].title ) => a = b
  /\ \A p, q \in PostsServed :
       (p.url = q.url /\ p.title = q.title) => p.id = q.id

(* an article the substack source lists has been stored again, by the     *)
(* medium source that published a copy of it, under the same id            *)
C13_Witness ==
  /\ Fetched(lastOp)
  /\ lastOp.src = 2
  /\ \E id \in DOMAIN post_records :
       /\ PostIdsOf(FetchedPosts(lastOp)) = <<id>>
       /\ KeyOf(1) \in DOMAIN post_ids
       /\ id \in SeqRange(post_ids[KeyOf(1)])
       /\ post_records[id].platform = Platforms[2].type
       /\ post_records[id].content = "c1"
       /\ Cardinality(DOMAIN post_records) = Len(post_order)


UnknownType(i) == Platforms[i].type \notin {"substack", "medium"}

(* the ids of the posts the adapter that returned in the step built *)
FetchedIds(op) ==
  IF Fetched(op) THEN SeqRange(PostIdsOf(FetchedPosts(op))) ELSE {}

(* C14: unknown source type.  In every call of get_all_content a source    *)
(* whose type has no adapter is due, no adapter is invoked for it, nothing *)
(* is written under its cache key, and the call raises only when the       *)
(* embedding model fails to load.  The other sources are processed as if   *)
(* it were absent: a step of the call writes a post record only for a post *)
(* the adapter that returned in the step built, a member-ID list and a     *)
(* last_fetch_time only under the key of the source whose adapter          *)
(* returned, and the result has no entry for the source of unknown type.   *)
C14_UnknownTypeSkipped ==
  [][ lastOp'.kind \in GacKinds =>
        /\ \A i \in PlatformIdx :
             UnknownType(i) =>
               /\ \E k \in DOMAIN lastOp'.to_fetch : lastOp'.to_fetch[k] = i
               /\ \A k \in DOMAIN lastOp'.calls : lastOp'.calls[k] # i
               /\ KeyOf(i) \notin DOMAIN post_ids'
               /\ KeyOf(i) \notin DOMAIN last_fetch_time'
               /\ NameOf(i) \notin DOMAIN lastOp'.results
        /\ lastOp'.raised => model = "None"
        /\ \E ids \in { FetchedIds(lastOp') } :
             \A id \in DOMAIN post_records' :
               \/ id \in ids
               \/ id \in DOMAIN post_records /\ post_records'[id] = post_records[id]
        /\ \A i \in PlatformIdx :
             ~(Returned(lastOp') /\ lastOp'.src = i) =>
               /\ SameAt(post_ids', post_ids, KeyOf(i))
               /\ SameAt(last_fetch_time', last_fetch_time, KeyOf(i)) ]_vars

(* a freshness check has ended in which the substack source was not due    *)
(* and was served from the store, while the source of unknown type, never  *)
(* stamped, was due again and skipped                                      *)
C14_Witness ==
  /\ lastOp.kind = "search_writing"
  /\ lastOp.done
  /\ \A k \in DOMAIN lastOp.calls : lastOp.calls[k] # 1
  /\ NameOf(1) \in DOMAIN lastOp.results
  /\ lastOp.results[NameOf(1)] # <<>>
  /\ \E i \in PlatformIdx :
       /\ UnknownType(i)
       /\ \E k \in DOMAIN lastOp.to_fetch : lastOp.to_fetch[k] = i
       /\ \A k \in DOMAIN lastOp.calls : lastOp.calls[k] # i
       /\ KeyOf(i) \notin DOMAIN last_fetch_time

(* C15: the mapping returned by get_all_content has an entry for the       *)
(* display name of every configured source, also for a source whose        *)
(* adapter failed and for a source of unknown type.                        *)
C15_EntryForEverySource ==
  (lastOp.kind \in GacKinds /\ lastOp.done /\ ~lastOp.raised) =>
    \A i \in PlatformIdx : NameOf(i) \in DOMAIN lastOp.results

(* the list the adapter that returned in the step gave to get_all_content *)
ReturnedPosts(op) == IF op.net.kind = "feed" THEN FetchedPosts(op) ELSE <<>>

(* C16: successful fetch postcondition.  When a call of get_all_content    *)
(* has returned, then for every due source whose adapter returned a list   *)
(* to it the store holds a post record equal to each returned article, the *)
(* member-ID list of the source is the sequence of the returned ids in     *)
(* adapter order, its last_fetch_time is the now of that call, and the     *)
(* result maps the name of the source to the returned list.                *)
C16_SuccessfulFetch ==
  [][ (lastOp'.kind \in GacKinds /\ lastOp'.done /\ ~lastOp'.raised) =>
        \A i \in Requested(lastOp') :
          /\ NameOf(i) \in DOMAIN lastOp'.results
          /\ \E posts \in { lastOp'.results[NameOf(i)] } :
               /\ \A k \in DOMAIN posts :
                    /\ posts[k].id \in DOMAIN post_records'
                    /\ post_records'[posts[k].id] = to_dict(posts[k])
               /\ KeyOf(i) \in DOMAIN post_ids'
               /\ post_ids'[KeyOf(i)] = PostIdsOf(posts)
               /\ KeyOf(i) \in DOMAIN last_fetch_time'
               /\ last_fetch_time'[KeyOf(i)] = lastOp'.t ]_vars

(* two calls overlapped: the call that ended in the step started last and  *)
(* was returned an article by source 1, and the store holds that article   *)
(* with the content the other call was returned and, for the source, the   *)
(* earlier now of the other call                                           *)
OverlapBreaksPostcondition ==
  /\ lastOp.kind \in GacKinds
  /\ lastOp.done
  /\ ~lastOp.raised
  /\ begun = 2
  /\ 1 \in Requested(lastOp)
  /\ Len(lastOp.results[NameOf(1)]) = 1
  /\ post_records[lastOp.results[NameOf(1)][1].id] # to_dict(lastOp.results[NameOf(1)][1])
  /\ post_ids[KeyOf(1)] = PostIdsOf(lastOp.results[NameOf(1)])
  /\ last_fetch_time[KeyOf(1)] < lastOp.t

(* source i is not due for a call that starts in the state *)
NotDue(op, i) ==
  /\ ~op.refresh
  /\ KeyOf(i) \in DOMAIN last_fetch_time
  /\ now - last_fetch_time[KeyOf(i)] <= CacheDuration

StoredMembers(i) ==
  SelectSeq(IF KeyOf(i) \in DOMAIN post_ids THEN post_ids[KeyOf(i)] ELSE <<>>,
            LAMBDA id : id \in DOMAIN post_records)

(* C17: not-due reconstruction.  For a source that is not due when a call  *)
(* of get_all_content starts, the call does not put the source on the list *)
(* of sources to fetch, so it does not invoke the adapter, and puts under  *)
(* the name of the source exactly the posts of the records of the ids of   *)
(* its stored member-ID list that have a record, in member-list order; ids *)
(* without a record are left out.  The later steps of the call leave the   *)
(* result of a source that is not on its list as it was, and the call      *)
(* raises only when the embedding model fails to load.                     *)
C17_NotDueReconstruction ==
  [][ lastOp'.kind \in GacKinds =>
        /\ lastOp'.step = "begin" =>
             \A i \in PlatformIdx :
               NotDue(lastOp', i) =>
                 /\ \A k \in DOMAIN lastOp'.to_fetch : lastOp'.to_fetch[k] # i
                 /\ \A k \in DOMAIN lastOp'.calls : lastOp'.calls[k] # i
                 /\ NameOf(i) \in DOMAIN lastOp'.results
                 /\ \E posts \in { lastOp'.results[NameOf(i)] },
                       ids \in { StoredMembers(i) } :
                      /\ Len(posts) = Len(ids)
                      /\ \A k \in DOMAIN posts :
                           /\ posts[k].id = ids[k]
                           /\ to_dict(posts[k]) = post_records[ids[k]]
        /\ lastOp'.step = "resume" =>
             \E k \in DOMAIN tasks :
               /\ tasks[k].kind = lastOp'.kind
               /\ tasks[k].t = lastOp'.t
               /\ tasks[k].to_fetch = lastOp'.to_fetch
               /\ Head(tasks[k].pending) = lastOp'.src
               /\ \A i \in PlatformIdx \ SeqRange(lastOp'.to_fetch) :
                    /\ \A j \in DOMAIN lastOp'.calls : lastOp'.calls[j] # i
                    /\ SameAt(lastOp'.results, tasks[k].res, NameOf(i))
        /\ lastOp'.raised => model = "None" ]_vars

(* a freshness check has started that serves source 1 from the store with  *)
(* the record of the first id of its member-ID list culled: the result     *)
(* holds the post of the second id alone                                   *)
C17_Witness ==
  /\ lastOp.kind = "search_writing"
  /\ lastOp.step = "begin"
  /\ \A k \in DOMAIN lastOp.to_fetch : lastOp.to_fetch[k] # 1
  /\ Len(post_ids[KeyOf(1)]) = 2
  /\ post_ids[KeyOf(1)][1] \notin DOMAIN post_records
  /\ NameOf(1) \in DOMAIN lastOp.results
  /\ PostIdsOf(lastOp.results[NameOf(1)]) = <<post_ids[KeyOf(1)][2]>>

(* C18: lazy backfill.  A search over a store with post records raises     *)
(* only when the embedding model fails to load, never because a post has   *)
(* no cached embedding; when it returns, every post record has an entry in *)
(* the embedding cache, whatever top_n was, and the provider was called    *)
(* in the step for the query and once for each post that had no entry.     *)
C18_LazyBackfill ==
  [][ (lastOp'.kind \in SearchKinds /\ lastOp'.done /\ post_records' # EmptyMap) =>
        /\ lastOp'.raised => model = "None"
        /\ ~lastOp'.raised =>
             /\ \A id \in DOMAIN post_records' : id \in DOMAIN embeddings_cache'
             /\ \A id \in DOMAIN embeddings_cache' \ DOMAIN embeddings_cache :
                  id \in DOMAIN post_records'
             /\ Len(lastOp'.encoded)
                  = 1 + Cardinality(DOMAIN embeddings_cache' \ DOMAIN embeddings_cache)
             ]_vars

(* a search with top_n = 0 over two stored posts that had no embedding     *)
(* (the model had failed to load when they were fetched) has cached both   *)
C18_Witness ==
  /\ lastOp.kind = "search"
  /\ lastOp.top_n = 0
  /\ ~lastOp.raised
  /\ Len(lastOp.corpus) = 2
  /\ Len(lastOp.encoded) = 3
  /\ \A id \in DOMAIN post_records : id \in DOMAIN embeddings_cache

PositionIn(seq, x) == CHOOSE k \in DOMAIN seq : seq[k] = x

(* the two scores are numbers and are equal *)
ScoreEqual(a, b) ==
  ~IsNaN(a) /\ ~IsNaN(b) /\ ~ScoreLess(a, b) /\ ~ScoreLess(b, a)

(* C19: tie-breaking.  In every search result two articles with equal      *)
(* score stand in the order in which they were iterated from the store.    *)
C19_StableTies ==
  (lastOp.kind \in SearchKinds /\ lastOp.done /\ ~lastOp.raised) =>
    \A j, k \in DOMAIN lastOp.ranked :
      (j < k /\ ScoreEqual(lastOp.ranked[j].score, lastOp.ranked[k].score)) =>
        PositionIn(lastOp.corpus, lastOp.ranked[j].post.id)
          < PositionIn(lastOp.corpus, lastOp.ranked[k].post.id)

(* the failing search on CPython up to 3.12: over seven stored articles    *)
(* with the scores 0.6, 0.6, 0.6, 0.6, nan, 0.6, 0.8 in store order the     *)
(* result lists the second article first and the first article fourth      *)
TieSwapped ==
  /\ python = "cpython312"
  /\ lastOp.kind = "search"
  /\ lastOp.done
  /\ ~lastOp.raised
  /\ Len(lastOp.corpus) = 7
  /\ Len(lastOp.ranked) = 4
  /\ lastOp.ranked[1].post.id = lastOp.corpus[2]
  /\ lastOp.ranked[2].post.id = lastOp.corpus[5]
  /\ lastOp.ranked[3].post.id = lastOp.corpus[7]
  /\ lastOp.ranked[4].post.id = lastOp.corpus[1]
  /\ ScoreEqual(lastOp.ranked[1].score, lastOp.ranked[4].score)
  /\ IsNaN(lastOp.ranked[2].score)

(* tie-breaking without the zero-norm case: when the query and every       *)
(* stored article have vectors of non-zero norm, an entry stands before    *)
(* another only if its score is higher, or the scores are equal and its    *)
(* post was iterated from the store before the other                       *)
StableWhenScoresDefined ==
  (lastOp.kind \in SearchKinds /\ lastOp.done /\ ~lastOp.raised
     /\ ScoresDefined(lastOp, embeddings_cache)) =>
    \A j, k \in DOMAIN lastOp.ranked :
      j < k =>
        \/ ScoreLess(lastOp.ranked[k].score, lastOp.ranked[j].score)
        \/ /\ ~ScoreLess(lastOp.ranked[j].score, lastOp.ranked[k].score)
           /\ PositionIn(lastOp.corpus, lastOp.ranked[j].post.id)
                < PositionIn(lastOp.corpus, lastOp.ranked[k].post.id)

(* C20: atomic bookkeeping update.  With calls overlapping at the awaits   *)
(* of the adapters, every uninterrupted stretch of a call either replaces  *)
(* both the member-ID list and the last_fetch_time of a source (with the   *)
(* ids the adapter returned and the now of that call) or leaves both as    *)
(* they were, and a key has a member-ID list exactly when it has a         *)
(* last_fetch_time: no other call, starting or resuming at an await, finds *)
(* one of the two replaced and the other not.                              *)
C20_AtomicBookkeeping ==
  [][ /\ DOMAIN post_ids' = DOMAIN last_fetch_time'
      /\ \A i \in PlatformIdx :
           IF Returned(lastOp') /\ lastOp'.src = i
           THEN /\ KeyOf(i) \in DOMAIN post_ids'
                /\ post_ids'[KeyOf(i)] = PostIdsOf(ReturnedPosts(lastOp'))
                /\ last_fetch_time'[KeyOf(i)] = lastOp'.t
           ELSE /\ SameAt(post_ids', post_ids, KeyOf(i))
                /\ SameAt(last_fetch_time', last_fetch_time, KeyOf(i)) ]_vars

(* a search starts while a call that began on an empty store and has       *)
(* stored and stamped source 1 is suspended at the await of source 2: the  *)
(* search finds source 1 not due and takes its posts from the store        *)
C20_Witness ==
  /\ lastOp.kind = "search_writing"
  /\ lastOp.step = "begin"
  /\ Len(tasks) = 2
  /\ Head(tasks[1].pending) = 2
  /\ tasks[1].to_fetch[1] = 1
  /\ tasks[1].calls = <<1>>
  /\ \A k \in DOMAIN tasks[2].to_fetch : tasks[2].to_fetch[k] # 1
  /\ NameOf(1) \in DOMAIN tasks[2].res
  /\ tasks[2].res[NameOf(1)] # <<>>
  /\ PostIdsOf(tasks[2].res[NameOf(1)]) = post_ids[KeyOf(1)]

(* C21: the embedding model is loaded at most once.  Whatever the          *)
(* interleaving of the calls that use the model, a step constructs the     *)
(* model only when the global is None and at most once, the global never   *)
(* goes back to None once it is set, and every step that gave a text to    *)
(* the provider ends with the model loaded.                                *)
C21_LoadedOnce ==
  [][ /\ lastOp'.loads <= 1
      /\ lastOp'.loads = 1 => (model = "None" /\ model' = "loaded")
      /\ model = "loaded" => (model' = "loaded" /\ lastOp'.loads = 0)
      /\ lastOp'.encoded # <<>> => model' = "loaded" ]_vars

(* line 550: preload_all_content has embedded posts that an earlier        *)
(* process stored without vectors and that its get_all_content did not     *)
(* embed, loading the model for them                                       *)
PreloadEmbedsStored ==
  /\ lastOp.kind = "preload_all_content"
  /\ lastOp.done
  /\ ~lastOp.raised
  /\ lastOp.synced = <<>>
  /\ lastOp.encoded # <<>>
  /\ lastOp.loads = 1

(* two calls overlapped and both embedded articles: the call that ended    *)
(* last found the model the other had constructed                          *)
C21_Witness ==
  /\ lastOp.kind \in GacKinds
  /\ lastOp.done
  /\ begun = 2
  /\ tasks = <<>>
  /\ lastOp.synced # <<>>
  /\ lastOp.loads = 0
  /\ model = "loaded"
  /\ Fetched(lastOp)
  /\ last_fetch_time[KeyOf(1)] > lastOp.t

(* the ids listed in the member-ID list of some source *)
MemberIds(pids) == UNION { SeqRange(pids[key]) : key \in DOMAIN pids }

RankedIds(op) == { op.ranked[k].post.id : k \in DOMAIN op.ranked }

(* C22: articles are never deleted.  Every step of refresh_content,        *)
(* search_writing and preload_all_content keeps every "post:<id>" key of   *)
(* the store, so the set of keys only grows; get_all_posts still returns   *)
(* each stored article, also one that no member-ID list names any more,    *)
(* and a search that replies with results has it in the corpus it scores   *)
(* and, when the corpus is no longer than the count of results kept, in    *)
(* its ranking.                                                            *)
C22_NeverDeleted ==
  /\ [][ \A id \in DOMAIN post_records :
           id \in DOMAIN post_records' ]_vars
  /\ [] ( \A id \in DOMAIN post_records :
            /\ id \in SeqRange(StoredIds)
            /\ (lastOp.kind = "search_writing" /\ lastOp.reply = "results") =>
                 /\ id \in SeqRange(lastOp.corpus)
                 /\ Len(lastOp.corpus) <= EffectiveTopN(lastOp.top_n) =>
                      id \in RankedIds(lastOp) )

(* a search ranked an article that a later fetch of its source had dropped *)
(* from the member-ID list of the source                                   *)
C22_Witness ==
  /\ lastOp.kind = "search_writing"
  /\ lastOp.reply = "results"
  /\ KeyOf(1) \in DOMAIN post_ids
  /\ post_ids[KeyOf(1)] = <<>>
  /\ \E id \in DOMAIN post_records :
       /\ post_records[id].platform_name = NameOf(1)
       /\ id \notin MemberIds(post_ids)
       /\ id \in RankedIds(lastOp)
       /\ id \in SeqRange(StoredIds)

(* C23: a stored last_fetch_time never decreases.  No step, also of calls  *)
(* of get_all_content that overlap, removes the last_fetch_time of a       *)
(* source or replaces it by an earlier time.                               *)
C23_LastFetchTimeMonotone ==
  [][ \A key \in DOMAIN last_fetch_time :
        /\ key \in DOMAIN last_fetch_time'
        /\ last_fetch_time'[key] >= last_fetch_time[key] ]_vars

(* C24: referential integrity of the bookkeeping.  In every reachable      *)
(* state every id in the stored member-ID list of a source has a           *)
(* "post:<id>" record in the store, and that record carries the id.        *)
C24_ReferentialIntegrity ==
  \A key \in DOMAIN post_ids :
    \A k \in DOMAIN post_ids[key] :
      /\ post_ids[key][k] \in DOMAIN post_records
      /\ post_records[post_ids[key][k]].id = post_ids[key][k]

(* a call has fetched both sources and ended, each member-ID list names an *)
(* article, the substack one fetched again after its first fetch           *)
C24_Witness ==
  /\ lastOp.kind \in GacKinds
  /\ lastOp.done
  /\ Fetched(lastOp)
  /\ lastOp.calls[1] = 1
  /\ lastOp.t > 0
  /\ post_ids[KeyOf(1)] # <<>>
  /\ post_ids[KeyOf(2)] # <<>>
  /\ post_records[post_ids[KeyOf(1)][1]].content = "c2"

(* every configured source has a last_fetch_time within cache_duration *)
AllFresh ==
  \A i \in FreshIdx :
    /\ KeyOf(i) \in DOMAIN last_fetch_time
    /\ now - last_fetch_time[KeyOf(i)] <= CacheDuration

(* C25: get_all_content(refresh = False) is read-only when no source is    *)
(* due.  When every configured source has a last_fetch_time within         *)
(* cache_duration, the call puts no source on the list to fetch, invokes   *)
(* no adapter, never suspends, embeds nothing and leaves every post        *)
(* record, member-ID list and last_fetch_time unchanged; its result is     *)
(* what the store holds for each source.  The search that follows it in    *)
(* search_writing touches the embedding cache and the model only when the  *)
(* store holds an article, and is then the only thing that can raise.      *)
C25_ReadOnlyWhenFresh ==
  [][ ( /\ lastOp'.step = "begin"
        /\ ~lastOp'.refresh
        /\ AllFresh ) =>
        /\ lastOp'.to_fetch = <<>>
        /\ lastOp'.calls = <<>>
        /\ lastOp'.done
        /\ tasks' = tasks
        /\ lastOp'.synced = <<>>
        /\ UNCHANGED <<post_records, post_order, post_ids, last_fetch_time>>
        /\ post_records = EmptyMap =>
             (~lastOp'.raised /\ UNCHANGED <<embeddings_cache, model>>)
        /\ lastOp'.raised => model = "None"
        /\ \A i \in FreshIdx :
             /\ NameOf(i) \in DOMAIN lastOp'.results
             /\ lastOp'.results[NameOf(i)]
                  = LoadFromCache(KeyOf(i), post_ids, post_records) ]_vars

(* a search made exactly cache_duration after both sources were fetched:   *)
(* nothing was fetched and the stored articles are in the result           *)
C25_Witness ==
  /\ lastOp.kind = "search_writing"
  /\ lastOp.step = "begin"
  /\ lastOp.done
  /\ AllFresh
  /\ \E i \in FreshIdx : lastOp.t - last_fetch_time[KeyOf(i)] = CacheDuration
  /\ lastOp.calls = <<>>
  /\ \E i \in FreshIdx : lastOp.results[NameOf(i)] # <<>>
====
